---- MODULE Spec2Model ----
(***************************************************************************)
(* Model of src/xcodebuild.ts: the three operations build, listTests and   *)
(* runTests, each a sequence of external processes (xcodebuild, xcrun)     *)
(* awaited one after the other.                                            *)
(*                                                                         *)
(* Text.  A JavaScript string is modelled as the non-empty sequence of its *)
(* "\n"-separated lines, each line a sequence of characters.  With that,   *)
(* s.split("\n") is the sequence itself, a.join("\n") is the concatenation *)
(* of the elements' line sequences, and the template `${a}\n${b}` is       *)
(* a \o b.  The empty string is << <<>> >>.                                *)
(***************************************************************************)
EXTENDS Integers, Sequences, FiniteSets, TLC

VARIABLES
    pc,            \* position of the invocation: which process it awaits
    op,            \* the operation called: "build", "listTests", "runTests"
    options,       \* the options of the call: warn, forTesting, only, coverage
    spawned,       \* the external processes spawned so far, in order
    exited,        \* how many of them have exited
    nextUuid,      \* number of tokens randomUUID() has handed out
    calls,         \* the invocations in flight together, one per slot
    allocated,     \* the paths handed to those invocations, in order
    resultBundlePath, \* the result-artifact path of runTests
    buildProcess,  \* how the build process ended: exit code and output
    buildResult,   \* what build() returned
    enumeration,   \* how the enumeration process ended: exit code, stderr, file
    allTests,      \* what the nested listTests() returned to runTests
    matchingTests, \* the identifiers runTests selected with the filter
    testExit,      \* exit code of the test invocation
    parsed,        \* the decoded summary of the result artifact
    result,        \* the text the operation returned
    thrown         \* the error the operation rejected with

vars == <<pc, op, options, spawned, exited, nextUuid, calls, allocated,
          resultBundlePath, buildProcess,
          buildResult,
          enumeration,
          allTests, matchingTests, testExit, parsed, result, thrown>>

-----------------------------------------------------------------------------
(* String literals of the source, character by character.                  *)

\* "BUILD SUCCEEDED"  (xcodebuild.ts:74)
BUILD_SUCCEEDED ==
    <<"B","U","I","L","D"," ","S","U","C","C","E","E","D","E","D">>
\* "BUILD SUCCEEDED WITH WARNINGS"  (xcodebuild.ts:71)
BUILD_SUCCEEDED_WITH_WARNINGS ==
    <<"B","U","I","L","D"," ","S","U","C","C","E","E","D","E","D"," ",
      "W","I","T","H"," ","W","A","R","N","I","N","G","S">>
\* "BUILD FAILED"  (xcodebuild.ts:77)
BUILD_FAILED ==
    <<"B","U","I","L","D"," ","F","A","I","L","E","D">>
\* "Command failed with exit code 65: xcodebuild"  (execa shortMessage, xcodebuild.ts:81)
ShortMessageExit ==
    <<"C","o","m","m","a","n","d"," ","f","a","i","l","e","d"," ","w",
      "i","t","h"," ","e","x","i","t"," ","c","o","d","e"," ","6","5",
      ":"," ","x","c","o","d","e","b","u","i","l","d">>
\* "Command failed with ENOENT: xcodebuild"  (execa shortMessage, xcodebuild.ts:81)
ShortMessageSpawn ==
    <<"C","o","m","m","a","n","d"," ","f","a","i","l","e","d"," ","w",
      "i","t","h"," ","E","N","O","E","N","T",":"," ","x","c","o","d",
      "e","b","u","i","l","d">>
\* ": error: "  (xcodebuild.ts:47)
ErrorMarker ==
    <<":"," ","e","r","r","o","r",":"," ">>
\* ": warning: "  (xcodebuild.ts:47)
WarningMarker ==
    <<":"," ","w","a","r","n","i","n","g",":"," ">>
\* "No tests found for the given filter: "  (xcodebuild.ts:128)
NO_FILTER_MATCH ==
    <<"N","o"," ","t","e","s","t","s"," ","f","o","u","n","d"," ","f",
      "o","r"," ","t","h","e"," ","g","i","v","e","n"," ","f","i","l",
      "t","e","r",":"," ">>
\* "-only-testing"  (xcodebuild.ts:126)
ONLY_TESTING ==
    <<"-","o","n","l","y","-","t","e","s","t","i","n","g">>
\* "Error: failed to parse test results JSON: SyntaxError"  (xcodebuild.ts:160)
PARSE_SUMMARY_FAILED ==
    <<"E","r","r","o","r",":"," ","f","a","i","l","e","d"," ","t","o",
      " ","p","a","r","s","e"," ","t","e","s","t"," ","r","e","s","u",
      "l","t","s"," ","J","S","O","N",":"," ","S","y","n","t","a","x",
      "E","r","r","o","r">>
\* "Test: "  (xcodebuild.ts:173)
TEST_LABEL ==
    <<"T","e","s","t",":"," ">>
\* "Test Identifier: "  (xcodebuild.ts:174)
IDENTIFIER_LABEL ==
    <<"T","e","s","t"," ","I","d","e","n","t","i","f","i","e","r",":",
      " ">>
\* "Test Failure: "  (xcodebuild.ts:175)
FAILURE_LABEL ==
    <<"T","e","s","t"," ","F","a","i","l","u","r","e",":"," ">>
\* "--------------------------------"  (xcodebuild.ts:176)
SEPARATOR ==
    <<"-","-","-","-","-","-","-","-","-","-","-","-","-","-","-","-",
      "-","-","-","-","-","-","-","-","-","-","-","-","-","-","-","-">>
\* "UNKNOWN"  (xcodebuild.ts:173)
UNKNOWN ==
    <<"U","N","K","N","O","W","N">>
\* "COVERAGE:"  (xcodebuild.ts:189)
COVERAGE_HEADER ==
    <<"C","O","V","E","R","A","G","E",":">>
\* "No tests were run. Are you sure the specified test(s) exist?"  (xcodebuild.ts:195)
NO_TESTS_RUN ==
    <<"N","o"," ","t","e","s","t","s"," ","w","e","r","e"," ","r","u",
      "n","."," ","A","r","e"," ","y","o","u"," ","s","u","r","e"," ",
      "t","h","e"," ","s","p","e","c","i","f","i","e","d"," ","t","e",
      "s","t","(","s",")"," ","e","x","i","s","t","?">>
\* "TEST SUCCEEDED"  (xcodebuild.ts:197)
TEST_SUCCEEDED ==
    <<"T","E","S","T"," ","S","U","C","C","E","E","D","E","D">>
\* "TEST FAILED"  (xcodebuild.ts:199)
TEST_FAILED ==
    <<"T","E","S","T"," ","F","A","I","L","E","D">>
\* "Failed to list tests: "  (xcodebuild.ts:241)
LIST_FAILED ==
    <<"F","a","i","l","e","d"," ","t","o"," ","l","i","s","t"," ","t",
      "e","s","t","s",":"," ">>
\* "Failed to parse test results: "  (xcodebuild.ts:269)
PARSE_LIST_FAILED ==
    <<"F","a","i","l","e","d"," ","t","o"," ","p","a","r","s","e"," ",
      "t","e","s","t"," ","r","e","s","u","l","t","s",":"," ">>
\* "No tests found for this scheme."  (xcodebuild.ts:273)
NO_TESTS_FOUND ==
    <<"N","o"," ","t","e","s","t","s"," ","f","o","u","n","d"," ","f",
      "o","r"," ","t","h","i","s"," ","s","c","h","e","m","e",".">>
\* "Error: ENOENT: no such file or directory"  (readFileSync error text)
ErrENOENT ==
    <<"E","r","r","o","r",":"," ","E","N","O","E","N","T",":"," ","n",
      "o"," ","s","u","c","h"," ","f","i","l","e"," ","o","r"," ","d",
      "i","r","e","c","t","o","r","y">>
\* "SyntaxError: Unexpected end of JSON input"  (JSON.parse error text)
ErrSyntax ==
    <<"S","y","n","t","a","x","E","r","r","o","r",":"," ","U","n","e",
      "x","p","e","c","t","e","d"," ","e","n","d"," ","o","f"," ","J",
      "S","O","N"," ","i","n","p","u","t">>
\* "TypeError: Cannot read properties of undefined"  (values[0] of an empty list)
ErrType ==
    <<"T","y","p","e","E","r","r","o","r",":"," ","C","a","n","n","o",
      "t"," ","r","e","a","d"," ","p","r","o","p","e","r","t","i","e",
      "s"," ","o","f"," ","u","n","d","e","f","i","n","e","d">>

-----------------------------------------------------------------------------
(* Bounds and the inputs drawn from them.                                  *)

\* lines of tool output a build may print
MaxLines == 2
\* value-groups of an enumeration document
MaxGroups == 2
\* enabled tests of one value-group
MaxTests == 2
\* entries of testFailures in a summary
MaxFailures == 2
\* largest totalTestCount of a summary
MaxTotal == 1

\* "A/t1", "A/t2": identifiers the enumeration tool may write
TestIds == { <<"A","/","t","1">>, <<"A","/","t","2">> }

\* filters a caller may pass as `only`: "", "t", "t2", "zz", "test"
\* ("" is falsy, like an absent filter)
Filters == { <<>>, <<"t">>, <<"t","2">>, <<"z","z">>, <<"t","e","s","t">> }

\* "a:1: error: x", "b:3: error: z", "a:2: warning: y", "note", "": lines of
\* build output
LineError == <<"a",":","1",":"," ","e","r","r","o","r",":"," ","x">>
LineError2 == <<"b",":","3",":"," ","e","r","r","o","r",":"," ","z">>
LineWarning == <<"a",":","2",":"," ","w","a","r","n","i","n","g",":"," ","y">>
LineNote == <<"n","o","t","e">>
BuildLines == { LineError, LineError2, LineWarning, LineNote, <<>> }

Digits == {"0","1","2","3","4","5","6","7","8","9"}

\* the empty string
EmptyStr == << <<>> >>
\* no value (a string always has one line at least)
NoText == <<>>

SeqsUpTo(S, n) == UNION { [1..k -> S] : k \in 0..n }

\* what a build may print: one line at least (the empty output is the one
\* empty line)
BuildOutputs == SeqsUpTo(BuildLines, MaxLines) \ { <<>> }

\* exit codes of xcodebuild: 0, 65 (failure), and -1 for a process that did
\* not start: under reject: false execa resolves with exitCode undefined
\* and empty output
SpawnFailed == 0 - 1
XcodebuildExits == {0, 65, SpawnFailed}

-----------------------------------------------------------------------------
(* Text helpers.                                                           *)

\* s.includes(f) on one line
Includes(s, f) ==
    \E i \in 0..(Len(s) - Len(f)) : SubSeq(s, i + 1, i + Len(f)) = f

\* a + b for strings: the last line of a continues with the first of b
Cat(a, b) ==
    SubSeq(a, 1, Len(a) - 1) \o << a[Len(a)] \o b[1] >> \o Tail(b)

\* array.join("\n") of an array of strings
RECURSIVE Join(_)
Join(arr) ==
    IF arr = <<>> THEN EmptyStr
    ELSE IF Len(arr) = 1 THEN arr[1]
    ELSE arr[1] \o Join(Tail(arr))

\* string.length > 0
NonEmpty(s) == s # EmptyStr

-----------------------------------------------------------------------------
(* build(): the diagnostic classifier and the outcome.                     *)

\* /\d: (error|warning): / matches at position i with the given marker
MatchAt(line, i, marker) ==
    /\ line[i] \in Digits
    /\ i + Len(marker) <= Len(line)
    /\ SubSeq(line, i + 1, i + Len(marker)) = marker

MatchPositions(line) ==
    { i \in 1..Len(line) :
        MatchAt(line, i, ErrorMarker) \/ MatchAt(line, i, WarningMarker) }

\* line.match(errorLineMatcher): match[1] of the leftmost match, or "none"
errorLineMatcher(line) ==
    LET ps == MatchPositions(line) IN
    IF ps = {} THEN "none"
    ELSE LET p == CHOOSE i \in ps : \A j \in ps : i <= j IN
         IF MatchAt(line, p, ErrorMarker) THEN "error" ELSE "warning"

\* ItemType collecting the warnings whatever the warn option
ItemType_IgnoresWarn(line, warn) ==
    LET m == errorLineMatcher(line) IN
    IF m = "error" THEN "error"
    ELSE IF m = "warning" THEN "warning"
    ELSE "undefined"

\* the first .map(): the type of the item a line becomes, "undefined" when
\* the callback returns nothing
ItemType(line, warn) ==
    LET m == errorLineMatcher(line) IN
    IF m = "error" THEN "error"
    ELSE IF warn /\ m = "warning" THEN "warning"
    ELSE "undefined"

OfType(lines, warn, t) ==
    SelectSeq(lines, LAMBDA l : ItemType(l, warn) = t)

\* errorsAndWarnings without the sort: the items in output order
errorsAndWarnings_Unsorted(all, warn) ==
    Join([i \in 1..Len(all) |->
            IF ItemType(all[i], warn) = "undefined" THEN EmptyStr
            ELSE << all[i] >>])

\* .sort(...).map(item => item?.message ?? "").join("\n"): Array.prototype
\* .sort moves the undefined items to the end without calling the
\* comparator, and sorts the others stably, errors before warnings
errorsAndWarnings(all, warn) ==
    LET errors == OfType(all, warn, "error")
        warnings == OfType(all, warn, "warning")
        undef == OfType(all, warn, "undefined")
    IN  Join([i \in 1..Len(errors) |-> << errors[i] >>]
             \o [i \in 1..Len(warnings) |-> << warnings[i] >>]
             \o [i \in 1..Len(undef) |-> EmptyStr])

\* result.shortMessage of execa for a command that failed
shortMessage(exitCode) ==
    IF exitCode = SpawnFailed THEN << ShortMessageSpawn >>
    ELSE << ShortMessageExit >>

\* build deciding failure by the error lines found, not by the exit code
build_FailsOnErrorLines(exitCode, all, warn) ==
    LET ew == errorsAndWarnings(all, warn) IN
    IF OfType(all, warn, "error") # <<>>
    THEN [result |-> "failure", text |-> << BUILD_FAILED >> \o ew]
    ELSE IF NonEmpty(ew)
    THEN [result |-> "success",
          text |-> << BUILD_SUCCEEDED_WITH_WARNINGS >> \o ew]
    ELSE [result |-> "success", text |-> << BUILD_SUCCEEDED >>]

\* the value build() returns for a finished process
build(exitCode, all, warn) ==
    LET ew == errorsAndWarnings(all, warn) IN
    IF exitCode = 0
    THEN IF NonEmpty(ew)
         THEN [result |-> "success",
               text |-> << BUILD_SUCCEEDED_WITH_WARNINGS >> \o ew]
         ELSE [result |-> "success", text |-> << BUILD_SUCCEEDED >>]
    ELSE IF NonEmpty(ew)
         THEN [result |-> "failure", text |-> << BUILD_FAILED >> \o ew]
         ELSE [result |-> "failure", text |-> shortMessage(exitCode)]

-----------------------------------------------------------------------------
(* listTests(): the value returned for a finished enumeration.             *)

\* "xcodebuild: error: test": what the enumeration may print on stderr
StderrLine ==
    <<"x","c","o","d","e","b","u","i","l","d",":"," ",
      "e","r","r","o","r",":"," ","t","e","s","t">>
StderrTexts == { EmptyStr, << StderrLine >> }

\* the enabledTests of one value-group: distinct identifiers, in some order
Groups ==
    { g \in SeqsUpTo(TestIds, MaxTests) :
        \A i, j \in 1..Len(g) : g[i] = g[j] => i = j }

\* all enabledTests identifiers of a document, in document order
RECURSIVE Flatten(_)
Flatten(values) ==
    IF values = <<>> THEN <<>> ELSE values[1] \o Flatten(Tail(values))

\* the documents the tool may write: a list of value-groups, an identifier
\* being unique within the document
EnumerationDocs ==
    { v \in SeqsUpTo(Groups, MaxGroups) :
        LET all == Flatten(v) IN
        \A i, j \in 1..Len(all) : all[i] = all[j] => i = j }

\* the file at testEnumerationOutputPath after the process has exited:
\* missing, not JSON, or a document
EnumerationFiles ==
    { [kind |-> "missing", values |-> <<>>],
      [kind |-> "malformed", values |-> <<>>] }
    \cup { [kind |-> "json", values |-> v] : v \in EnumerationDocs }

\* jsonResult.values[0].enabledTests.map(test => test.identifier)
FirstGroupTests(values) == values[1]

\* what listTests() returns
listTests(exitCode, stderr, file) ==
    IF exitCode # 0 THEN Cat(<< LIST_FAILED >>, stderr)
    ELSE IF file.kind = "missing"
         THEN << PARSE_LIST_FAILED \o ErrENOENT >>
    ELSE IF file.kind = "malformed"
         THEN << PARSE_LIST_FAILED \o ErrSyntax >>
    ELSE IF file.values = <<>>
         THEN << PARSE_LIST_FAILED \o ErrType >>
    ELSE LET tests == FirstGroupTests(file.values) IN
         IF Len(tests) = 0 THEN << NO_TESTS_FOUND >>
         ELSE Join([i \in 1..Len(tests) |-> << tests[i] >>])

-----------------------------------------------------------------------------
(* runTests(): selection, report.                                          *)

\* Select losing the first match
Select_DropsFirst(lines, only) ==
    LET matches == SelectSeq(lines, LAMBDA test : Includes(test, only)) IN
    IF matches = <<>> THEN <<>> ELSE Tail(matches)

\* allTests.split("\n").filter(test => test.includes(only))
Select(lines, only) == SelectSeq(lines, LAMBDA test : Includes(test, only))

\* .flatMap(test => ["-only-testing", test])
RECURSIVE OnlyTestingArgs(_)
OnlyTestingArgs(tests) ==
    IF tests = <<>> THEN <<>>
    ELSE << ONLY_TESTING, tests[1] >> \o OnlyTestingArgs(Tail(tests))

\* the matchingTests of runTests for the string listTests() returned
MatchingTests(all, only) == OnlyTestingArgs(Select(all, only))

\* the text returned when matchingTests is empty
NoMatchReport(all, only) == << NO_FILTER_MATCH \o only >>

\* value || "UNKNOWN" for a string field ("" and undefined are both falsy)
OrUnknown(field) == IF field = EmptyStr THEN << UNKNOWN >> ELSE field

\* one element of failureDetails
FailureDetail(failure) ==
    Join(<< Cat(<< TEST_LABEL >>, OrUnknown(failure.testName)),
            Cat(<< IDENTIFIER_LABEL >>, OrUnknown(failure.testIdentifierString)),
            Cat(<< FAILURE_LABEL >>, OrUnknown(failure.failureText)),
            << SEPARATOR >> >>)

\* parsed.totalTestCount || 0
TotalTests(doc) == IF doc.hasTotal THEN doc.totalTestCount ELSE 0

\* parsed.testFailures || []
Failures(doc) == IF doc.hasFailures THEN doc.testFailures ELSE <<>>

\* StatusMessage deciding on the failures before the count of tests
StatusMessage_FailuresFirst(doc) ==
    LET failures == Failures(doc) IN
    IF Len(failures) > 0
    THEN << TEST_FAILED >>
         \o Join([i \in 1..Len(failures) |-> FailureDetail(failures[i])])
    ELSE IF TotalTests(doc) = 0 THEN << NO_TESTS_RUN >>
    ELSE << TEST_SUCCEEDED >>

\* StatusMessage reporting the first failure only
StatusMessage_FirstFailureOnly(doc) ==
    LET failures == Failures(doc) IN
    IF TotalTests(doc) = 0 THEN << NO_TESTS_RUN >>
    ELSE IF Len(failures) = 0 THEN << TEST_SUCCEEDED >>
    ELSE << TEST_FAILED >> \o FailureDetail(failures[1])

StatusMessage(doc) ==
    LET failures == Failures(doc) IN
    IF TotalTests(doc) = 0 THEN << NO_TESTS_RUN >>
    ELSE IF Len(failures) = 0 THEN << TEST_SUCCEEDED >>
    ELSE << TEST_FAILED >>
         \o Join([i \in 1..Len(failures) |-> FailureDetail(failures[i])])

\* `COVERAGE:\n${stdout}`
CoverageOutput(stdout) == << COVERAGE_HEADER >> \o stdout

\* Report appending the coverage only to a report without failures
Report_CoverageOnSuccessOnly(doc, coverageOutput) ==
    IF Len(Failures(doc)) = 0 THEN StatusMessage(doc) \o coverageOutput
    ELSE StatusMessage(doc)

\* `${statusMessage}\n${coverageOutput}`
Report(doc, coverageOutput) == StatusMessage(doc) \o coverageOutput

\* "t1", "A/t1", "assert false", "A/t2", "boom": fields of test failures
NameT1 == << <<"t","1">> >>
IdT1 == << <<"A","/","t","1">> >>
TextT1 == << <<"a","s","s","e","r","t"," ","f","a","l","s","e">> >>
IdT2 == << <<"A","/","t","2">> >>
TextT2 == << <<"b","o","o","m">> >>

\* entries a summary may hold in testFailures; the second has no testName
FailureRecords ==
    { [testName |-> NameT1, testIdentifierString |-> IdT1,
       failureText |-> TextT1],
      [testName |-> EmptyStr, testIdentifierString |-> IdT2,
       failureText |-> TextT2] }

\* the JSON documents the summary query may print: totalTestCount and
\* testFailures may each be absent
SummaryDocs ==
    { d \in [hasTotal : BOOLEAN, totalTestCount : 0..MaxTotal,
             hasFailures : BOOLEAN,
             testFailures : SeqsUpTo(FailureRecords, MaxFailures)] :
        /\ ~d.hasTotal => d.totalTestCount = 0
        /\ ~d.hasFailures => d.testFailures = <<>> }

\* no summary decoded yet
NoDoc ==
    [hasTotal |-> FALSE, totalTestCount |-> 0 - 1, hasFailures |-> FALSE,
     testFailures |-> <<>>]

\* "50%": what the coverage query may print
CoverageTexts == { << <<"5","0","%">> >> }

-----------------------------------------------------------------------------
(* The external processes.                                                 *)

\* join(tmpdir(), uuid), and the same path with an extension appended
Path(uuid, ext) == [uuid |-> uuid, ext |-> ext]
NoPath == Path(0, "")

\* one spawned process: the command, the path it is given, the value of
\* -enableCodeCoverage and the arguments pushed after the fixed ones
Process(cmd, path, cov, args) ==
    [cmd |-> cmd, path |-> path, enableCodeCoverage |-> cov, args |-> args]

\* exit codes of xcrun: 0, 1, and -1 for a process that did not start
XcrunExits == {0, 1, SpawnFailed}

\* exit codes of the test invocation: 0, and 65 when a test failed or the
\* run could not be made
TestExits == {0, 65}

\* execa's `reject` option at each call site: whether a process that failed
\* makes the awaited promise reject.  build, the enumeration and the test
\* invocation pass reject: false; the two xcrun queries leave the default.
BuildRejects(exitCode) == FALSE
EnumerationRejects(exitCode) == FALSE

\* TestRejects as it is without reject: false at the test invocation
TestRejects_Default(exitCode) == exitCode # 0

TestRejects(exitCode) == FALSE
SummaryRejects(exitCode) == exitCode # 0
CoverageRejects(exitCode) == exitCode # 0

\* BuildFailed with the check of the build outcome left out
BuildFailed_Never(r) == FALSE

\* buildResult.result === "failure"
BuildFailed(r) == r.result = "failure"

\* HasFilter taking every call as filtered
HasFilter_Always(only) == TRUE

\* if (only): the empty string is falsy, like undefined
HasFilter(only) == only # <<>>

\* coverage ? "YES" : "NO"
EnableCodeCoverage(coverage) == IF coverage THEN "YES" ELSE "NO"

NoBuildResult == [result |-> "none", text |-> NoText]

\* console.error(buildResult.text): runTests writes the text of a build
\* that succeeded to the log and reads buildResult no more; the status is
\* kept, the text and the output of the process are not
Logged(r) == [result |-> r.result, text |-> NoText]

\* no build process has exited yet
NoBuildProcess == [exitCode |-> 0, all |-> NoText]

\* no enumeration process has exited yet
NoEnumeration ==
    [exitCode |-> 0, stderr |-> EmptyStr,
     file |-> [kind |-> "none", values |-> <<>>]]

\* randomUUID as a token drawn once, when the module is loaded
randomUUID_Once(n) == 1

\* the token randomUUID() returns when it has handed out n tokens: a
\* version-4 UUID, taken to differ from every token handed out before
randomUUID(n) == n + 1

\* invocations that may be in flight together
MaxCalls == 2
Invocations == 1..MaxCalls

\* an invocation that has not been made
NoCall ==
    [op |-> "none", filter |-> FALSE, coverage |-> FALSE, pc |-> "idle",
     resultBundlePath |-> NoPath, testEnumerationOutputPath |-> NoPath,
     spawned |-> <<>>]

\* a process of one of the invocations in flight: the command and the path
\* it is given
Started(cmd, path) == [cmd |-> cmd, path |-> path]

Init ==
    /\ pc = "idle"
    /\ op = "none"
    /\ options = [warn |-> FALSE, forTesting |-> FALSE, only |-> <<>>,
                  coverage |-> FALSE]
    /\ spawned = <<>>
    /\ exited = 0
    /\ nextUuid = 0
    /\ calls = [c \in Invocations |-> NoCall]
    /\ allocated = <<>>
    /\ resultBundlePath = NoPath
    /\ buildProcess = NoBuildProcess
    /\ buildResult = NoBuildResult
    /\ enumeration = NoEnumeration
    /\ allTests = NoText
    /\ matchingTests = <<>>
    /\ testExit = 0
    /\ parsed = NoDoc
    /\ result = NoText
    /\ thrown = "none"

\* build(options) up to its await
CallBuild ==
    /\ pc = "idle"
    /\ UNCHANGED <<calls, allocated, exited>>
    /\ \E warn \in BOOLEAN, forTesting \in BOOLEAN :
        /\ options' = [warn |-> warn, forTesting |-> forTesting,
                       only |-> <<>>, coverage |-> FALSE]
        /\ spawned' = Append(spawned,
              Process(IF forTesting THEN "build-for-testing" ELSE "build",
                      NoPath, "", <<>>))
    /\ op' = "build"
    /\ pc' = "build_wait"
    /\ UNCHANGED <<nextUuid, resultBundlePath, buildProcess,
                   buildResult, enumeration,
                   allTests, matchingTests, testExit, parsed, result, thrown>>

\* listTests(options) up to its await: a fresh path, then the enumeration
CallListTests ==
    /\ pc = "idle"
    /\ UNCHANGED <<calls, allocated, exited>>
    /\ op' = "listTests"
    /\ nextUuid' = nextUuid + 1
    /\ spawned' = Append(spawned,
          Process("enumerate", Path(nextUuid + 1, ""), "", <<>>))
    /\ pc' = "list_wait"
    /\ UNCHANGED <<options, resultBundlePath, buildProcess,
                   buildResult, enumeration,
                   allTests, matchingTests, testExit, parsed, result, thrown>>

\* runTests(options) up to its first await: build({scheme, forTesting: true})
CallRunTests ==
    /\ pc = "idle"
    /\ UNCHANGED <<calls, allocated, exited>>
    /\ \E only \in Filters, coverage \in BOOLEAN :
        options' = [warn |-> FALSE, forTesting |-> TRUE, only |-> only,
                    coverage |-> coverage]
    /\ op' = "runTests"
    /\ spawned' = Append(spawned, Process("build-for-testing", NoPath, "", <<>>))
    /\ pc' = "build_wait"
    /\ UNCHANGED <<nextUuid, resultBundlePath, buildProcess,
                   buildResult, enumeration,
                   allTests, matchingTests, testExit, parsed, result, thrown>>

\* the operation returns text
Return(text) ==
    /\ result' = text
    /\ pc' = "done"

\* the operation's promise rejects
Throw(error) ==
    /\ thrown' = error
    /\ pc' = "rejected"

\* the build process exits; build() returns.  In runTests the caller goes on
\* to its next await: the enumeration when a filter is given, else the test
\* invocation.
BuildExit ==
    /\ pc = "build_wait"
    /\ exited' = exited + 1
    /\ UNCHANGED <<calls, allocated>>
    /\ \E exitCode \in XcodebuildExits, all \in BuildOutputs :
        /\ exitCode = SpawnFailed => all = EmptyStr
        /\ IF BuildRejects(exitCode)
           THEN /\ Throw("ExecaError")
                /\ UNCHANGED <<spawned, nextUuid, resultBundlePath,
                               buildProcess, buildResult, result>>
           ELSE LET r == build(exitCode, all, options.warn) IN
                IF op = "build" \/ BuildFailed(r)
                THEN /\ buildProcess' = [exitCode |-> exitCode, all |-> all]
                     /\ buildResult' = r
                     /\ Return(r.text)
                     /\ UNCHANGED <<spawned, nextUuid, resultBundlePath,
                                    thrown>>
                ELSE LET path == Path(nextUuid + 1, "") IN
                     /\ buildProcess' = [exitCode |-> exitCode, all |-> NoText]
                     /\ buildResult' = Logged(r)
                     /\ resultBundlePath' = path
                     /\ IF HasFilter(options.only)
                        THEN /\ nextUuid' = nextUuid + 2
                             /\ spawned' = Append(spawned,
                                   Process("enumerate",
                                           Path(nextUuid + 2, ""), "", <<>>))
                             /\ pc' = "list_wait"
                        ELSE /\ nextUuid' = nextUuid + 1
                             /\ spawned' = Append(spawned,
                                   Process("test", path,
                                       EnableCodeCoverage(options.coverage),
                                       <<>>))
                             /\ pc' = "test_wait"
                     /\ UNCHANGED <<result, thrown>>
    /\ UNCHANGED <<op, options, enumeration, allTests, matchingTests, testExit,
                   parsed>>

\* the enumeration process exits; listTests() returns.  In runTests the
\* caller filters the returned text and goes on to the test invocation.
ListExit ==
    /\ pc = "list_wait"
    /\ exited' = exited + 1
    /\ UNCHANGED <<calls, allocated>>
    /\ \E exitCode \in XcodebuildExits, stderr \in StderrTexts,
          file \in EnumerationFiles :
        /\ exitCode = 0 => stderr = EmptyStr
        /\ exitCode # 0 => file.kind = "missing"
        /\ enumeration' = [exitCode |-> exitCode, stderr |-> stderr, file |-> file]
        /\ IF EnumerationRejects(exitCode)
           THEN /\ Throw("ExecaError")
                /\ UNCHANGED <<spawned, allTests, matchingTests, result>>
           ELSE LET tests == listTests(exitCode, stderr, file) IN
                IF op = "listTests"
                THEN /\ Return(tests)
                     /\ UNCHANGED <<spawned, allTests, matchingTests, thrown>>
                ELSE LET matching == MatchingTests(tests, options.only) IN
                     /\ allTests' = tests
                     /\ matchingTests' = matching
                     /\ IF Len(matching) = 0
                        THEN /\ Return(NoMatchReport(tests, options.only))
                             /\ UNCHANGED <<spawned, thrown>>
                        ELSE /\ spawned' = Append(spawned,
                                   Process("test", resultBundlePath,
                                       EnableCodeCoverage(options.coverage),
                                       matching))
                             /\ pc' = "test_wait"
                             /\ UNCHANGED <<result, thrown>>
    /\ UNCHANGED <<op, options, nextUuid, resultBundlePath, buildProcess,
                   buildResult,
                   testExit, parsed>>

\* TestExit starting the test invocation once more when it failed
TestExit_RetriesOnFailure ==
    /\ pc = "test_wait"
    /\ exited' = exited + 1
    /\ UNCHANGED <<calls, allocated>>
    /\ \E exitCode \in TestExits :
        /\ testExit' = exitCode
        /\ IF exitCode # 0 /\ testExit = 0
           THEN /\ spawned' = Append(spawned, spawned[Len(spawned)])
                /\ pc' = "test_wait"
           ELSE /\ spawned' = Append(spawned,
                      Process("summary", resultBundlePath, "", <<>>))
                /\ pc' = "summary_wait"
        /\ UNCHANGED thrown
    /\ UNCHANGED <<op, options, nextUuid, resultBundlePath, buildProcess,
                   buildResult,
                   enumeration, allTests, matchingTests, parsed, result>>

\* TestExit for a test invocation that is not awaited: the summary is
\* queried while the test process is still running
TestExit_NotAwaited ==
    /\ pc = "test_wait"
    /\ UNCHANGED <<calls, allocated, exited>>
    /\ \E exitCode \in TestExits :
        /\ testExit' = exitCode
        /\ spawned' = Append(spawned,
              Process("summary", resultBundlePath, "", <<>>))
        /\ pc' = "summary_wait"
        /\ UNCHANGED thrown
    /\ UNCHANGED <<op, options, nextUuid, resultBundlePath, buildProcess,
                   buildResult,
                   enumeration, allTests, matchingTests, parsed, result>>

\* the test invocation exits; runTests queries the summary of the artifact
TestExit ==
    /\ pc = "test_wait"
    /\ exited' = exited + 1
    /\ UNCHANGED <<calls, allocated>>
    /\ \E exitCode \in TestExits :
        /\ testExit' = exitCode
        /\ IF TestRejects(exitCode)
           THEN /\ Throw("ExecaError")
                /\ UNCHANGED spawned
           ELSE /\ spawned' = Append(spawned,
                      Process("summary", resultBundlePath, "", <<>>))
                /\ pc' = "summary_wait"
                /\ UNCHANGED thrown
    /\ UNCHANGED <<op, options, nextUuid, resultBundlePath, buildProcess,
                   buildResult,
                   enumeration, allTests, matchingTests, parsed, result>>

\* the summary query exits: the promise rejects, or stdout is not JSON, or
\* it decodes; with coverage the caller goes on to the coverage query
SummaryExit ==
    /\ pc = "summary_wait"
    /\ exited' = exited + 1
    /\ UNCHANGED <<calls, allocated>>
    /\ \E exitCode \in XcrunExits :
        IF SummaryRejects(exitCode)
        THEN /\ Throw("ExecaError")
             /\ UNCHANGED <<spawned, parsed, result>>
        ELSE \/ /\ Return(<< PARSE_SUMMARY_FAILED >>)
                /\ UNCHANGED <<spawned, parsed, thrown>>
             \/ \E doc \in SummaryDocs :
                  /\ parsed' = doc
                  /\ IF options.coverage
                     THEN /\ spawned' = Append(spawned,
                                Process("coverage",
                                    Path(resultBundlePath.uuid, ".xcresult"),
                                    "", <<>>))
                          /\ pc' = "coverage_wait"
                          /\ UNCHANGED <<result, thrown>>
                     ELSE /\ Return(Report(doc, EmptyStr))
                          /\ UNCHANGED <<spawned, thrown>>
    /\ UNCHANGED <<op, options, nextUuid, resultBundlePath, buildProcess,
                   buildResult,
                   enumeration, allTests, matchingTests, testExit>>

\* the coverage query exits: the promise rejects, or the report is returned
CoverageExit ==
    /\ pc = "coverage_wait"
    /\ exited' = exited + 1
    /\ UNCHANGED <<calls, allocated>>
    /\ \E exitCode \in XcrunExits :
        IF CoverageRejects(exitCode)
        THEN /\ Throw("ExecaError")
             /\ UNCHANGED result
        ELSE \E stdout \in CoverageTexts :
             /\ Return(Report(parsed, CoverageOutput(stdout)))
             /\ UNCHANGED thrown
    /\ UNCHANGED <<op, options, spawned, nextUuid, resultBundlePath,
                   buildProcess,
                   buildResult, enumeration, allTests, matchingTests, testExit,
                   parsed>>

Next ==
    \/ CallBuild
    \/ CallListTests
    \/ CallRunTests
    \/ BuildExit
    \/ ListExit
    \/ TestExit
    \/ SummaryExit
    \/ CoverageExit

Spec == Init /\ [][Next]_vars

-----------------------------------------------------------------------------
(* Several invocations in flight: each is suspended at its external-process
   boundaries, where the others may run.  What an invocation computes from
   the output of a process is a choice here; the paths are as in the code. *)

\* the variables of the single invocation above
sequential == <<pc, op, options, spawned, exited, resultBundlePath,
                buildProcess,
                buildResult, enumeration, allTests, matchingTests, testExit,
                parsed, result, thrown>>

\* listTests(options) of invocation c, up to its await
ListTestsCalled(c) ==
    /\ calls[c].pc = "idle"
    /\ LET path == Path(randomUUID(nextUuid), "") IN
       /\ calls' = [calls EXCEPT ![c] =
             [@ EXCEPT !.op = "listTests",
                       !.testEnumerationOutputPath = path,
                       !.spawned = Append(@, Started("enumerate", path)),
                       !.pc = "list_wait"]]
       /\ allocated' = Append(allocated, path)
    /\ nextUuid' = nextUuid + 1
    /\ UNCHANGED sequential

\* runTests(options) of invocation c, up to the await in build()
RunTestsCalled(c) ==
    /\ calls[c].pc = "idle"
    /\ \E only \in Filters, coverage \in BOOLEAN :
        calls' = [calls EXCEPT ![c] =
            [@ EXCEPT !.op = "runTests",
                      !.filter = HasFilter(only),
                      !.coverage = coverage,
                      !.spawned = Append(@, Started("build-for-testing", NoPath)),
                      !.pc = "build_wait"]]
    /\ UNCHANGED <<nextUuid, allocated>>
    /\ UNCHANGED sequential

\* the build process of invocation c exits: runTests returns the failure,
\* or allocates its result-artifact path and goes on to the enumeration
\* (which allocates its own path) or to the test invocation
BuildExited(c) ==
    /\ calls[c].pc = "build_wait"
    /\ \E failed \in BOOLEAN :
        IF failed
        THEN /\ calls' = [calls EXCEPT ![c].pc = "done"]
             /\ UNCHANGED <<nextUuid, allocated>>
        ELSE LET path == Path(randomUUID(nextUuid), "") IN
             IF calls[c].filter
             THEN LET listPath == Path(randomUUID(nextUuid + 1), "") IN
                  /\ calls' = [calls EXCEPT ![c] =
                        [@ EXCEPT !.resultBundlePath = path,
                                  !.testEnumerationOutputPath = listPath,
                                  !.spawned = Append(@,
                                      Started("enumerate", listPath)),
                                  !.pc = "list_wait"]]
                  /\ allocated' = allocated \o << path, listPath >>
                  /\ nextUuid' = nextUuid + 2
             ELSE /\ calls' = [calls EXCEPT ![c] =
                        [@ EXCEPT !.resultBundlePath = path,
                                  !.spawned = Append(@, Started("test", path)),
                                  !.pc = "test_wait"]]
                  /\ allocated' = Append(allocated, path)
                  /\ nextUuid' = nextUuid + 1
    /\ UNCHANGED sequential

\* the enumeration process of invocation c exits: listTests returns; in
\* runTests the filter matches nothing, or the test invocation starts
EnumerationExited(c) ==
    /\ calls[c].pc = "list_wait"
    /\ \E matched \in BOOLEAN :
        IF calls[c].op = "listTests" \/ ~matched
        THEN calls' = [calls EXCEPT ![c].pc = "done"]
        ELSE calls' = [calls EXCEPT ![c] =
                [@ EXCEPT !.spawned = Append(@,
                              Started("test", calls[c].resultBundlePath)),
                          !.pc = "test_wait"]]
    /\ UNCHANGED <<nextUuid, allocated>>
    /\ UNCHANGED sequential

\* TestRunExited with the result path kept in one place for all
\* invocations: the summary is queried at the path allocated last
TestRunExited_SharedPath(c) ==
    /\ calls[c].pc = "test_wait"
    /\ calls' = [calls EXCEPT ![c] =
          [@ EXCEPT !.spawned = Append(@,
                        Started("summary", allocated[Len(allocated)])),
                    !.pc = "summary_wait"]]
    /\ UNCHANGED <<nextUuid, allocated>>
    /\ UNCHANGED sequential

\* the test invocation of invocation c exits; the summary is queried
TestRunExited(c) ==
    /\ calls[c].pc = "test_wait"
    /\ calls' = [calls EXCEPT ![c] =
          [@ EXCEPT !.spawned = Append(@,
                        Started("summary", calls[c].resultBundlePath)),
                    !.pc = "summary_wait"]]
    /\ UNCHANGED <<nextUuid, allocated>>
    /\ UNCHANGED sequential

\* the summary query of invocation c exits: the call rejects, or returns a
\* report, or goes on to the coverage query
SummaryExited(c) ==
    /\ calls[c].pc = "summary_wait"
    /\ \E exitCode \in XcrunExits, decoded \in BOOLEAN :
        IF SummaryRejects(exitCode)
        THEN calls' = [calls EXCEPT ![c].pc = "rejected"]
        ELSE IF decoded /\ calls[c].coverage
        THEN calls' = [calls EXCEPT ![c] =
                [@ EXCEPT !.spawned = Append(@,
                              Started("coverage",
                                  Path(calls[c].resultBundlePath.uuid,
                                       ".xcresult"))),
                          !.pc = "coverage_wait"]]
        ELSE calls' = [calls EXCEPT ![c].pc = "done"]
    /\ UNCHANGED <<nextUuid, allocated>>
    /\ UNCHANGED sequential

\* the coverage query of invocation c exits: the call rejects or returns
CoverageExited(c) ==
    /\ calls[c].pc = "coverage_wait"
    /\ \E exitCode \in XcrunExits :
        IF CoverageRejects(exitCode)
        THEN calls' = [calls EXCEPT ![c].pc = "rejected"]
        ELSE calls' = [calls EXCEPT ![c].pc = "done"]
    /\ UNCHANGED <<nextUuid, allocated>>
    /\ UNCHANGED sequential

NextConcurrent ==
    \E c \in Invocations :
        \/ ListTestsCalled(c)
        \/ RunTestsCalled(c)
        \/ BuildExited(c)
        \/ EnumerationExited(c)
        \/ TestRunExited(c)
        \/ SummaryExited(c)
        \/ CoverageExited(c)

SpecConcurrent == Init /\ [][NextConcurrent]_vars

-----------------------------------------------------------------------------
(* Observations on a state, used by the properties below.                  *)

\* the commands spawned so far, in order
Commands == [i \in 1..Len(spawned) |-> spawned[i].cmd]

\* the invocation has ended, by returning or by rejecting
Ended == pc \in {"done", "rejected"}

\* the test invocation has been started and has exited
TestExited ==
    /\ \E i \in 1..Len(spawned) : spawned[i].cmd = "test"
    /\ pc # "test_wait"

\* some line of the text contains the string (of one line)
TextIncludes(text, s) == \E i \in 1..Len(text) : Includes(text[i], s)

\* the values that follow a -only-testing flag in an argument list
ValuesAfterFlag(args) ==
    [i \in 1..(Len(args) \div 2) |-> args[2 * i]]

-----------------------------------------------------------------------------
(* Properties.                                                             *)

\* C1: when the build-for-testing step of runTests returns status failure,
\* runTests returns exactly that outcome's text and has spawned nothing but
\* the build process: no enumeration, test, summary or coverage process.
C1_BuildFailureShortCircuits ==
    (op = "runTests" /\ buildResult.result = "failure")
        => /\ pc = "done"
           /\ result = buildResult.text
           /\ Commands = << "build-for-testing" >>

\* a runTests whose build step failed has ended
C1_Witness ==
    /\ op = "runTests"
    /\ buildResult.result = "failure"
    /\ Ended

\* C2: once the test invocation has exited, the summary of the result
\* artifact is queried next, whatever the exit code was, and the report
\* returned is the one the decoded summary (with the coverage output, when
\* requested) gives: the exit code of the test invocation has no part in it.
C2_SummaryIsAuthoritative ==
    /\ TestExited =>
         \E i \in 1..(Len(spawned) - 1) :
            /\ spawned[i].cmd = "test"
            /\ spawned[i + 1].cmd = "summary"
    /\ (pc = "done" /\ parsed # NoDoc) =>
         \/ ~options.coverage /\ result = Report(parsed, EmptyStr)
         \/ /\ options.coverage
            /\ \E stdout \in CoverageTexts :
                  result = Report(parsed, CoverageOutput(stdout))

\* the test invocation exited non-zero and the report says the tests passed
C2_Witness ==
    /\ pc = "done"
    /\ testExit = 65
    /\ parsed # NoDoc
    /\ result[1] = TEST_SUCCEEDED

\* C3: when the summary cannot be obtained (the query fails) or decoded,
\* runTests returns the could-not-interpret-results text.
C3_SummaryFailureIsReported ==
    (/\ op = "runTests"
     /\ Ended
     /\ Len(spawned) > 0
     /\ spawned[Len(spawned)].cmd = "summary"
     /\ parsed = NoDoc)
        => /\ pc = "done"
           /\ result = << PARSE_SUMMARY_FAILED >>

\* C4: every invocation ends by returning: no failure of a spawned process
\* escapes as a rejected promise.
C4_NothingEscapes == pc # "rejected"

\* the status line of a report is one of the three status texts
StatusOf(text) ==
    IF text[1] = NO_TESTS_RUN THEN "no tests were run"
    ELSE IF text[1] = TEST_SUCCEEDED THEN "succeeded"
    ELSE IF text[1] = TEST_FAILED THEN "failed"
    ELSE "other"

\* the summary's totalTestCount is 0 or absent
CountZeroOrAbsent(doc) == ~doc.hasTotal \/ doc.totalTestCount = 0

\* the summary's testFailures is empty or absent
FailuresEmptyOrAbsent(doc) == ~doc.hasFailures \/ doc.testFailures = <<>>

\* C5: a report built from a decoded summary has exactly one of three
\* statuses: no tests were run iff totalTestCount is 0 or absent; succeeded
\* iff totalTestCount > 0 and testFailures is empty or absent; failed iff
\* totalTestCount > 0 and testFailures is non-empty.
C5_StatusOfReport ==
    (pc = "done" /\ parsed # NoDoc) =>
        /\ StatusOf(result) \in {"no tests were run", "succeeded", "failed"}
        /\ StatusOf(result) = "no tests were run" <=> CountZeroOrAbsent(parsed)
        /\ StatusOf(result) = "succeeded" <=>
              (~CountZeroOrAbsent(parsed) /\ FailuresEmptyOrAbsent(parsed))
        /\ StatusOf(result) = "failed" <=>
              (~CountZeroOrAbsent(parsed) /\ ~FailuresEmptyOrAbsent(parsed))

\* a summary with failures and no test counted is reported as no tests run
C5_Witness ==
    /\ pc = "done"
    /\ parsed # NoDoc
    /\ CountZeroOrAbsent(parsed)
    /\ ~FailuresEmptyOrAbsent(parsed)
    /\ StatusOf(result) = "no tests were run"

\* the field of a failure as the report shows it
Shown(field) == IF field = EmptyStr THEN UNKNOWN ELSE field[1]

\* the lines of a text equal to the separator line
SeparatorLines(text) == { i \in 1..Len(text) : text[i] = SEPARATOR }

\* C6: with totalTestCount > 0 and k >= 1 failures the report has failed
\* status and exactly k entries, in the summary's order, the i-th carrying
\* the i-th failure's testName, testIdentifierString and failureText.
C6_EveryFailureListed ==
    (/\ pc = "done"
     /\ parsed # NoDoc
     /\ ~CountZeroOrAbsent(parsed)
     /\ ~FailuresEmptyOrAbsent(parsed))
        => LET k == Len(parsed.testFailures) IN
           /\ StatusOf(result) = "failed"
           /\ Len(result) >= 1 + 4 * k
           /\ SeparatorLines(result) = { 1 + 4 * i : i \in 1..k }
           /\ \A i \in 1..k :
                LET f == parsed.testFailures[i] IN
                /\ result[4 * i - 2] = TEST_LABEL \o Shown(f.testName)
                /\ result[4 * i - 1] =
                      IDENTIFIER_LABEL \o Shown(f.testIdentifierString)
                /\ result[4 * i] = FAILURE_LABEL \o Shown(f.failureText)

\* a report of two different failures
C6_Witness ==
    /\ pc = "done"
    /\ parsed # NoDoc
    /\ ~CountZeroOrAbsent(parsed)
    /\ Len(parsed.testFailures) = 2
    /\ parsed.testFailures[1] # parsed.testFailures[2]
    /\ StatusOf(result) = "failed"

\* the enumeration of the nested listTests exited with code 0 and wrote a
\* document with a value-group
EnumerationSucceeded ==
    /\ enumeration.exitCode = 0
    /\ enumeration.file.kind = "json"
    /\ enumeration.file.values # <<>>

\* the identifier list the enumeration returned: the tests listTests decoded
Enumerated ==
    IF EnumerationSucceeded THEN FirstGroupTests(enumeration.file.values)
    ELSE <<>>

\* runTests has computed its selection from the enumeration
SelectionComputed ==
    /\ op = "runTests"
    /\ HasFilter(options.only)
    /\ allTests # NoText

\* the subsequence of a list of the elements that contain f
RECURSIVE Containing(_, _)
Containing(L, f) ==
    IF L = <<>> THEN <<>>
    ELSE IF Includes(L[1], f) THEN << L[1] >> \o Containing(Tail(L), f)
    ELSE Containing(Tail(L), f)

\* C7: with a filter that no enumerated identifier contains, runTests ends
\* before the test invocation and returns a report that contains the filter
\* string and every identifier of the enumeration.
C7_NoMatchReportListsTests ==
    (/\ SelectionComputed
     /\ EnumerationSucceeded
     /\ Enumerated # <<>>
     /\ Containing(Enumerated, options.only) = <<>>)
        => /\ pc = "done"
           /\ \A i \in 1..Len(spawned) : spawned[i].cmd # "test"
           /\ TextIncludes(result, options.only)
           /\ \A i \in 1..Len(Enumerated) :
                 TextIncludes(result, Enumerated[i])

\* C8: the selection computed in runTests is exactly the subsequence of the
\* enumerated identifier list, in its order, of the identifiers that
\* contain the filter.
C8_SelectionIsFilteredEnumeration ==
    (SelectionComputed /\ EnumerationSucceeded)
        => ValuesAfterFlag(matchingTests)
              = Containing(Enumerated, options.only)

\* C9: selecting again with the same filter on a selection yields the same
\* selection, for the selection runTests computed and for every filter on
\* the lines listTests returned.
C9_SelectionIdempotent ==
    SelectionComputed =>
        /\ Select(ValuesAfterFlag(matchingTests), options.only)
              = ValuesAfterFlag(matchingTests)
        /\ \A f \in Filters :
              Select(Select(allTests, f), f) = Select(allTests, f)

\* a selection of two identifiers has been computed
C9_Witness ==
    /\ SelectionComputed
    /\ EnumerationSucceeded
    /\ Len(ValuesAfterFlag(matchingTests)) = 2

\* C10: the test invocation carries one -only-testing flag per selected
\* identifier, in enumeration order, and every value after a -only-testing
\* flag is an identifier the enumeration returned.
C10_OnlyEnumeratedTestsSelected ==
    \A i \in 1..Len(spawned) :
        (spawned[i].cmd = "test" /\ HasFilter(options.only)) =>
            LET args == spawned[i].args IN
            /\ Len(args) = 2 * Len(ValuesAfterFlag(args))
            /\ \A j \in 1..Len(ValuesAfterFlag(args)) :
                  /\ args[2 * j - 1] = ONLY_TESTING
                  /\ \E k \in 1..Len(Enumerated) : args[2 * j] = Enumerated[k]
            /\ ValuesAfterFlag(args) = Containing(Enumerated, options.only)

\* C11: in runTests without a filter no enumeration process is spawned and
\* the test invocation carries no -only-testing flag (no argument after the
\* fixed ones).
C11_NoFilterRunsEverything ==
    (op = "runTests" /\ options.only = <<>>) =>
        \A i \in 1..Len(spawned) :
            /\ spawned[i].cmd # "enumerate"
            /\ spawned[i].cmd = "test" => spawned[i].args = <<>>

\* an unfiltered runTests has started its test invocation
C11_Witness ==
    /\ op = "runTests"
    /\ options.only = <<>>
    /\ \E i \in 1..Len(spawned) : spawned[i].cmd = "test"

\* what a listTests that has returned gave back: to its caller, or to the
\* runTests that called it
ListTestsReturned ==
    IF op = "listTests" /\ pc = "done" THEN result
    ELSE IF op = "runTests" THEN allTests
    ELSE NoText

\* a line starts with the given characters
StartsWith(line, prefix) ==
    /\ Len(prefix) <= Len(line)
    /\ SubSeq(line, 1, Len(prefix)) = prefix

\* C12: listTests reports a non-zero exit of the enumeration as an
\* enumeration failure, never as "No tests found for this scheme."; that
\* text is returned only after the enumeration exited with code 0 and its
\* output holds no identifier.
C12_NoTestsFoundOnlyForEmptyEnumeration ==
    ListTestsReturned # NoText =>
        /\ enumeration.exitCode # 0 =>
              /\ StartsWith(ListTestsReturned[1], LIST_FAILED)
              /\ ListTestsReturned # << NO_TESTS_FOUND >>
        /\ ListTestsReturned = << NO_TESTS_FOUND >> =>
              /\ enumeration.exitCode = 0
              /\ enumeration.file.kind = "json"
              /\ Flatten(enumeration.file.values) = <<>>

\* the first half of C12 alone: a non-zero exit is reported as a failure
\* to list, and "No tests found" is returned only after exit code 0
C12_NonZeroExitIsFailure ==
    ListTestsReturned # NoText =>
        /\ enumeration.exitCode # 0 =>
              StartsWith(ListTestsReturned[1], LIST_FAILED)
        /\ ListTestsReturned = << NO_TESTS_FOUND >> =>
              enumeration.exitCode = 0

\* C13: for a document with any number of value-groups listTests returns
\* the identifiers of the enabledTests of all groups, in document order.
C13_AllGroupsListed ==
    (/\ op = "listTests"
     /\ pc = "done"
     /\ enumeration.exitCode = 0
     /\ enumeration.file.kind = "json"
     /\ Flatten(enumeration.file.values) # <<>>)
        => result = Flatten(enumeration.file.values)

\* a build process has exited and build() has returned
BuildReturned == buildResult # NoBuildResult

\* a line of tool output matches the diagnostic pattern
IsDiagnostic(line) ==
    \E i \in 1..Len(line) : \E marker \in {ErrorMarker, WarningMarker} :
        /\ line[i] \in Digits
        /\ i + Len(marker) <= Len(line)
        /\ \A j \in 1..Len(marker) : line[i + j] = marker[j]

\* build() has returned for a process whose output the state still holds
OutputKnown == BuildReturned /\ buildProcess.all # NoText

\* no line of the output matches the diagnostic pattern
NoDiagnostics == \A i \in 1..Len(buildProcess.all) : ~IsDiagnostic(buildProcess.all[i])

\* C14: the status of a build outcome is failure if and only if the exit
\* code of the tool is non-zero, whatever the output lines and the warn
\* option; exit code 0 gives status success.
C14_StatusByExitCode ==
    BuildReturned =>
        /\ buildResult.result = "failure" <=> buildProcess.exitCode # 0
        /\ buildProcess.exitCode = 0 => buildResult.result = "success"

\* a build that printed an error line and exited with code 0 succeeded
C14_Witness ==
    /\ op = "build"
    /\ pc = "done"
    /\ buildProcess.exitCode = 0
    /\ \E i \in 1..Len(buildProcess.all) : buildProcess.all[i] = LineError
    /\ buildResult.result = "success"

\* C15: for an output of any number of lines none of which matches the
\* diagnostic pattern, a build that exits with code 0 returns the plain
\* success text, with no diagnostic block.
C15_PlainSuccessWithoutDiagnostics ==
    (OutputKnown /\ NoDiagnostics /\ buildProcess.exitCode = 0)
        => buildResult.text = << BUILD_SUCCEEDED >>

\* C16: for an output of any number of lines none of which matches the
\* diagnostic pattern, a build that exits with a non-zero code returns the
\* generic fallback message, never the BUILD FAILED header with a blank
\* body.
C16_FallbackWithoutDiagnostics ==
    (OutputKnown /\ NoDiagnostics /\ buildProcess.exitCode # 0)
        => /\ buildResult.text = shortMessage(buildProcess.exitCode)
           /\ buildResult.text[1] # BUILD_FAILED

\* the severity of a line: "error", "warning", or "none"
Severity(line) ==
    IF ~IsDiagnostic(line) THEN "none" ELSE errorLineMatcher(line)

\* the subsequence of the lines of one severity
RECURSIVE OfSeverity(_, _)
OfSeverity(lines, sev) ==
    IF lines = <<>> THEN <<>>
    ELSE IF Severity(lines[1]) = sev
         THEN << lines[1] >> \o OfSeverity(Tail(lines), sev)
    ELSE OfSeverity(Tail(lines), sev)

\* the diagnostic block of a build text: the lines after the header
DiagnosticBlock(text) ==
    IF text[1] \in {BUILD_FAILED, BUILD_SUCCEEDED_WITH_WARNINGS}
    THEN Tail(text) ELSE <<>>

\* C17: in the diagnostic block every error line comes before every
\* warning line; the error lines are those of the output, in the output's
\* order and once per occurrence, and so are the warning lines when the
\* caller asked for warnings.
C17_ErrorsBeforeWarnings ==
    OutputKnown =>
        LET block == DiagnosticBlock(buildResult.text) IN
        /\ \A i, j \in 1..Len(block) :
              (Severity(block[i]) = "warning" /\ Severity(block[j]) = "error")
                  => j < i
        /\ OfSeverity(block, "error") = OfSeverity(buildProcess.all, "error")
        /\ options.warn =>
              OfSeverity(block, "warning")
                  = OfSeverity(buildProcess.all, "warning")

\* a warning printed before an error is reported after it
C17_Witness ==
    /\ OutputKnown
    /\ options.warn
    /\ buildProcess.all = << LineWarning, LineError >>
    /\ DiagnosticBlock(buildResult.text) = << LineError, LineWarning >>

\* C18: error lines are always in the diagnostic block; with warn false
\* (the setting of runTests for its build step) the build text holds no
\* warning line.
C18_WarningsOnlyWhenAsked ==
    OutputKnown =>
        /\ OfSeverity(DiagnosticBlock(buildResult.text), "error")
              = OfSeverity(buildProcess.all, "error")
        /\ ~options.warn =>
              \A i \in 1..Len(buildResult.text) :
                  Severity(buildResult.text[i]) # "warning"
        /\ op = "runTests" => ~options.warn

\* a build without warn printed a warning and an error: only the error is
\* in the text
C18_Witness ==
    /\ OutputKnown
    /\ ~options.warn
    /\ buildProcess.all = << LineWarning, LineError >>
    /\ DiagnosticBlock(buildResult.text) = << LineError, <<>> >>

\* runTests returned a report built from a decoded summary
ReportReturned == op = "runTests" /\ pc = "done" /\ parsed # NoDoc

\* the text ends with a coverage block: the header line and then a payload
\* the coverage query may print
CoverageAppended(text) ==
    \E i \in 1..Len(text) :
        /\ text[i] = COVERAGE_HEADER
        /\ SubSeq(text, i + 1, Len(text)) \in CoverageTexts

\* C19: a report built from a decoded summary ends with the coverage block
\* if and only if coverage was requested, whatever its status; the coverage
\* query is spawned if and only if coverage was requested; and the test
\* invocation enables code coverage exactly when it was requested.
C19_CoverageIffRequested ==
    ReportReturned =>
        /\ StatusOf(result) \in {"succeeded", "failed", "no tests were run"}
        /\ CoverageAppended(result) <=> options.coverage
        /\ (\E i \in 1..Len(result) : result[i] = COVERAGE_HEADER)
              <=> options.coverage
        /\ (\E i \in 1..Len(spawned) : spawned[i].cmd = "coverage")
              <=> options.coverage
        /\ \A i \in 1..Len(spawned) :
              spawned[i].cmd = "test" =>
                  spawned[i].enableCodeCoverage
                      = (IF options.coverage THEN "YES" ELSE "NO")

\* a report of failed tests carries the coverage that was requested
C19_Witness ==
    /\ ReportReturned
    /\ options.coverage
    /\ StatusOf(result) = "failed"
    /\ CoverageAppended(result)

\* the paths allocated to invocation c
PathsOf(c) ==
    { calls[c].resultBundlePath, calls[c].testEnumerationOutputPath }
        \ { NoPath }

\* invocation c is suspended at an external process
InFlight(c) == calls[c].pc \notin {"idle", "done", "rejected"}

\* C20: with several runTests and listTests invocations interleaved at their
\* process boundaries, no path is allocated twice, no two invocations hold
\* the same path, and the result-artifact path of a runTests differs from
\* the enumeration-output path of the listTests it calls.
C20_PathsNeverShared ==
    /\ \A i, j \in 1..Len(allocated) :
          i # j => allocated[i] # allocated[j]
    /\ \A c \in Invocations :
          \A p \in PathsOf(c) : \E i \in 1..Len(allocated) : allocated[i] = p
    /\ \A c, d \in Invocations : c # d => PathsOf(c) \cap PathsOf(d) = {}
    /\ \A c \in Invocations :
          calls[c].testEnumerationOutputPath # NoPath
              => calls[c].resultBundlePath
                    # calls[c].testEnumerationOutputPath

\* a runTests holding both of its paths and a listTests holding its path are
\* suspended at their processes at the same time
C20_Witness ==
    \E c, d \in Invocations :
        /\ c # d
        /\ InFlight(c) /\ InFlight(d)
        /\ calls[c].op = "runTests"
        /\ Cardinality(PathsOf(c)) = 2
        /\ calls[d].op = "listTests"
        /\ Cardinality(PathsOf(d)) = 1

\* the spawned processes that have not exited
Running == Len(spawned) - exited

\* the place of a command in the order of the steps
Rank(cmd) ==
    CASE cmd \in {"build", "build-for-testing"} -> 1
      [] cmd = "enumerate" -> 2
      [] cmd = "test" -> 3
      [] cmd = "summary" -> 4
      [] cmd = "coverage" -> 5

\* C21: within one invocation at most one external process is running, and
\* one is running exactly while the invocation is suspended; the processes
\* start in the order build, enumeration, test, summary, coverage, and when
\* the enumeration, the test invocation or the summary query has started,
\* every process started before it has exited; in runTests the build came
\* first, and a test invocation came before the summary query.
C21_OneProcessAtATime ==
    /\ Running \in {0, 1}
    /\ Running = 1 <=> pc \in {"build_wait", "list_wait", "test_wait",
                               "summary_wait", "coverage_wait"}
    /\ \A i, j \in 1..Len(spawned) :
          i < j => Rank(spawned[i].cmd) < Rank(spawned[j].cmd)
    /\ \A j \in 1..Len(spawned) :
          /\ spawned[j].cmd \in {"enumerate", "test", "summary"}
                => exited >= j - 1
          /\ (op = "runTests" /\ spawned[j].cmd \in {"enumerate", "test"})
                => j > 1 /\ spawned[1].cmd = "build-for-testing"
          /\ spawned[j].cmd = "summary"
                => j > 1 /\ spawned[j - 1].cmd = "test"

\* a filtered runTests waits for the summary query: the build, the
\* enumeration and the test invocation have exited
C21_Witness ==
    /\ op = "runTests"
    /\ pc = "summary_wait"
    /\ Commands = << "build-for-testing", "enumerate", "test", "summary" >>
    /\ exited = 3

\* how many times a command is in the process log
Times(cmd) == Cardinality({ i \in 1..Len(spawned) : spawned[i].cmd = cmd })

\* C22: no step is retried: each of the build, enumeration, test, summary
\* and coverage processes is in the process log at most once, and a step
\* whose process exited with a failure is in it exactly once.
C22_NoStepRetried ==
    /\ \A cmd \in {"build", "build-for-testing", "enumerate", "test",
                   "summary", "coverage"} : Times(cmd) <= 1
    /\ Times("build") + Times("build-for-testing") <= 1
    /\ Len(spawned) <= 5
    /\ (buildProcess # NoBuildProcess /\ buildProcess.exitCode # 0)
          => Len(spawned) = 1
    /\ enumeration.exitCode # 0 => Times("enumerate") = 1
    /\ testExit # 0 => Times("test") = 1
    /\ thrown # "none" =>
          Times(spawned[Len(spawned)].cmd) = 1

\* a runTests whose test invocation exited with 65 has ended with one test
\* invocation in its log
C22_Witness ==
    /\ op = "runTests"
    /\ Ended
    /\ testExit = 65
    /\ Times("test") = 1

\* the enumeration step failed: the process exited non-zero, or the file it
\* was to write is missing or is not JSON
EnumerationFailed ==
    \/ enumeration.exitCode # 0
    \/ enumeration.file.kind \in {"missing", "malformed"}

\* the text is a failure report of listTests
IsEnumerationFailureReport(text) ==
    /\ text # NoText
    /\ \/ StartsWith(text[1], LIST_FAILED)
       \/ StartsWith(text[1], PARSE_LIST_FAILED)

\* C23: in runTests with a filter, when the enumeration step has failed,
\* runTests has returned an enumeration-failure report and has started no
\* test invocation; the report is not the filter-matched-nothing report.
C23_EnumerationFailureReported ==
    (SelectionComputed /\ EnumerationFailed) =>
        /\ pc = "done"
        /\ IsEnumerationFailureReport(result)
        /\ result # NoMatchReport(allTests, options.only)
        /\ Times("test") = 0

\* the first way C23 fails: the filter-matched-nothing report is returned
C23_NotReportedAsNoMatch ==
    (SelectionComputed /\ EnumerationFailed /\ pc = "done") =>
        result # NoMatchReport(allTests, options.only)

\* the second way C23 fails: a test invocation is started
C23_NoTestAfterFailedEnumeration ==
    (SelectionComputed /\ EnumerationFailed) => Times("test") = 0

\* C24: in every invocation the test invocation is given the invocation's
\* result-artifact path, allocated by then; the summary query is given the
\* path the test invocation was given; the coverage query reads that path
\* with ".xcresult" appended; the enumeration of the nested listTests is
\* given the enumeration-output path, a different one; and no process of an
\* invocation is given a path allocated to another invocation.
C24_ArtifactPathsCorrelated ==
    \A c \in Invocations :
        LET log == calls[c].spawned
            own == calls[c].resultBundlePath
        IN  \A i \in 1..Len(log) :
            /\ log[i].cmd = "test" =>
                  /\ own # NoPath
                  /\ log[i].path = own
                  /\ \E k \in 1..Len(allocated) : allocated[k] = own
            /\ log[i].cmd = "summary" =>
                  \E j \in 1..(i - 1) :
                      log[j].cmd = "test" /\ log[j].path = log[i].path
            /\ log[i].cmd = "coverage" =>
                  \E j \in 1..(i - 1) :
                      /\ log[j].cmd = "test"
                      /\ log[i].path = Path(log[j].path.uuid, ".xcresult")
            /\ log[i].cmd = "enumerate" =>
                  /\ log[i].path = calls[c].testEnumerationOutputPath
                  /\ log[i].path.uuid # own.uuid
            /\ \A d \in Invocations \ {c} :
                  \A p \in PathsOf(d) : log[i].path.uuid # p.uuid

\* two runTests invocations overlap: one, with a filter, has reached its
\* coverage query while the other waits for its summary query
C24_Witness ==
    \E c, d \in Invocations :
        /\ c # d
        /\ calls[c].filter
        /\ calls[c].pc = "coverage_wait"
        /\ calls[d].pc = "summary_wait"
        /\ Cardinality(PathsOf(c)) = 2
        /\ PathsOf(d) # {}

====
